---------------------------- MODULE Spec2Model ----------------------------
(***************************************************************************)
(* Model of api/process.py: the UTAGE registration-route reconciliation    *)
(* endpoint.  One POST request is parsed (handler.do_POST), the           *)
(* spreadsheet is read, the uploaded CSV is indexed, the e-mail addresses  *)
(* of the spreadsheet are matched against the index and the routes are     *)
(* written back into the "UTAGE<touroku keiro>" column (process_data).     *)
(*                                                                         *)
(* Strings are sequences of characters.  A character is written as a       *)
(* short ASCII token:                                                      *)
(*   "a", "A", "-", " ", ...   the ASCII character itself                  *)
(*   "fw:A", "fw:a"            FULLWIDTH LATIN LETTER A (U+FF21 / U+FF41)  *)
(*   "fw:sp"                   IDEOGRAPHIC SPACE (U+3000)                  *)
(*   "k:me", "k:chouon", ...   the katakana of the column names            *)
(*   "j:tou", "j:roku", ...    the kanji of the column names               *)
(***************************************************************************)
EXTENDS Integers, Sequences, FiniteSets, TLC

(***************************************************************************)
(* Text helpers: str.strip, str.lower, unicodedata.normalize("NFKC"),      *)
(* the `in` operator on strings, ", ".join                                 *)
(***************************************************************************)

\* characters str.strip() removes (str.isspace): space and U+3000
IsSpace(c) == c \in {" ", "fw:sp"}

\* str.lower, character by character
LowerChar(c) ==
  CASE c = "A" -> "a"
    [] c = "E" -> "e"
    [] c = "I" -> "i"
    [] c = "L" -> "l"
    [] c = "M" -> "m"
    [] c = "N" -> "n"
    [] c = "G" -> "g"
    [] c = "T" -> "t"
    [] c = "U" -> "u"
    [] c = "fw:A" -> "fw:a"
    [] OTHER -> c

\* unicodedata.normalize("NFKC", .), character by character: the fullwidth
\* forms fold to their ASCII counterparts, U+3000 to the ASCII space
NfkcChar(c) ==
  CASE c = "fw:A" -> "A"
    [] c = "fw:a" -> "a"
    [] c = "fw:sp" -> " "
    [] OTHER -> c

Lower(s) == [i \in 1..Len(s) |-> LowerChar(s[i])]

Nfkc(s) == [i \in 1..Len(s) |-> NfkcChar(s[i])]

\* str.strip(): drop the leading and the trailing whitespace
Strip(s) ==
  LET keep == {i \in 1..Len(s) : ~IsSpace(s[i])}
  IN  IF keep = {} THEN <<>>
      ELSE LET lo == CHOOSE i \in keep : \A j \in keep : i <= j
               hi == CHOOSE i \in keep : \A j \in keep : j <= i
           IN  SubSeq(s, lo, hi)

\* Python's `sub in s` on strings: sub is a contiguous part of s
\* (the empty string is in every string)
Contains(sub, s) ==
  \E k \in 0..(Len(s) - Len(sub)) : SubSeq(s, k + 1, k + Len(sub)) = sub

\* ", ".join(routes)
RECURSIVE Join(_)
Join(routes) ==
  IF routes = <<>> THEN <<>>
  ELSE IF Len(routes) = 1 THEN routes[1]
  ELSE routes[1] \o <<",", " ">> \o Join(Tail(routes))

(***************************************************************************)
(* Settings (process.py lines 19-21) and the route column's header         *)
(***************************************************************************)

S_MailAddress == <<"k:me", "k:chouon", "k:ru", "k:a", "k:do", "k:re", "k:su">>

EMAIL_COLUMN_PATTERNS ==
  << S_MailAddress,
     <<"k:me", "k:a", "k:do">>,
     <<"e", "k:me", "k:chouon", "k:ru">>,
     <<"e", "m", "a", "i", "l">>,
     <<"e", "-", "m", "a", "i", "l">>,
     <<"m", "a", "i", "l">> >>

UTAGE_EMAIL_COLUMN == S_MailAddress

UTAGE_ROUTE_COLUMN == <<"j:tou", "j:roku", "j:kei", "j:ro">>

\* the literal "UTAGE<touroku keiro>" of lines 157 and 169
RouteHeader == <<"U", "T", "A", "G", "E", "j:tou", "j:roku", "j:kei", "j:ro">>

(***************************************************************************)
(* Pure functions                                                          *)
(***************************************************************************)

normalize_email(email) ==
  IF email = <<>> THEN <<>>
  ELSE Lower(Nfkc(Strip(email)))

\* whether a header cell matches one of the patterns (line 60-62)
HeaderMatches(col_name) ==
  LET col_lower == Strip(Lower(col_name))
  IN  \E p \in 1..Len(EMAIL_COLUMN_PATTERNS) :
        \/ Contains(Lower(EMAIL_COLUMN_PATTERNS[p]), col_lower)
        \/ Contains(col_lower, Lower(EMAIL_COLUMN_PATTERNS[p]))

\* 0-based index of the first matching header cell, -1 when there is none
find_email_column(header_row) ==
  LET hits == {i \in 1..Len(header_row) : HeaderMatches(header_row[i])}
  IN  IF hits = {} THEN -1
      ELSE (CHOOSE i \in hits : \A j \in hits : i <= j) - 1

\* chr(n) for the capital letters, n in 65..90
Chr(n) ==
  << "A", "B", "C", "D", "E", "F", "G", "H", "I", "J", "K", "L", "M",
     "N", "O", "P", "Q", "R", "S", "T", "U", "V", "W", "X", "Y", "Z" >>[n - 64]

\* a variant with plain base-26 digits: divmod(index, 26)
RECURSIVE ColLoop_Base26(_, _)
ColLoop_Base26(index, result) ==
  IF index > 0
  THEN ColLoop_Base26(index \div 26, <<Chr(65 + (index % 26))>> \o result)
  ELSE result

\* the while loop of col_index_to_letter (lines 71-73)
RECURSIVE ColLoop(_, _)
ColLoop(index, result) ==
  IF index > 0
  THEN ColLoop((index - 1) \div 26, <<Chr(65 + ((index - 1) % 26))>> \o result)
  ELSE result

\* a variant without the index += 1 of line 70
col_index_to_letter_ZeroBased(index) == ColLoop(index, <<>>)

col_index_to_letter(index) == ColLoop(index + 1, <<>>)


(***************************************************************************)
(* Bounds of the explored inputs                                           *)
(***************************************************************************)

\* data rows of the spreadsheet
MaxRows == 2

\* rows of the uploaded CSV
MaxCsvRows == 2

(***************************************************************************)
(* State                                                                   *)
(***************************************************************************)

VARIABLES
  sheet,             \* the first worksheet's values, a sequence of rows
  sheet0,            \* history: the worksheet when the request arrived
  request,           \* the POST request: Content-Type, Content-Length, parts
  csv,               \* the uploaded file: encoding, columns, rows
  pc,                \* position of the request in do_POST / process_data
  all_data,          \* process_data local (line 91)
  email_col_index,   \* process_data local (line 97)
  emails,            \* process_data local (lines 102-105)
  tmp,               \* the temporary file: "none", "exists" or "deleted"
  csv_data,          \* the rows pandas decoded (lines 118-120)
  email_to_routes,   \* the index (lines 129-139)
  results,           \* lines 142-151
  not_found_emails,  \* lines 143-151
  route_col_index,   \* lines 155-164
  route_col_letter,  \* line 166
  values_to_write,   \* lines 178-186
  result,            \* the dict process_data returns (lines 192-198)
  error,             \* the exception in flight, NoError when there is none
  updates,           \* the worksheet.update calls issued so far
  responses,         \* the HTTP responses sent so far
  run,               \* number of the request being served
  prev               \* history: outcome of the last request that succeeded

vars ==
  << sheet, sheet0, request, csv, pc, all_data, email_col_index, emails, tmp,
     csv_data, email_to_routes, results, not_found_emails, route_col_index,
     route_col_letter, values_to_write, result, error, updates, responses,
     run, prev >>

NoError == [kind |-> "none", arg |-> <<>>]

Err(kind) == [kind |-> kind, arg |-> <<>>]

NoResult == [success |-> FALSE]

NoPrev == [ok |-> FALSE]

\* an empty dict
EmptyMap == [k \in {} |-> <<>>]

(***************************************************************************)
(* Inputs                                                                  *)
(***************************************************************************)

SeqsUpTo(S, n) == UNION {[1..k -> S] : k \in 0..n}

S_Name == <<"j:shi", "j:mei">>

\* header rows: the e-mail column second and no route column yet; the
\* e-mail column first ("Email ") and the route column already there
HeaderAppend == <<S_Name, S_MailAddress>>

HeaderExisting == << <<"E", "m", "a", "i", "l", " ">>, RouteHeader, S_Name >>

\* a data row that ends in front of its e-mail cell: the service leaves
\* out the blank cells at the end of a row
Absent == <<"<absent>">>

\* e-mail cells of the spreadsheet: blank, whitespace only, fullwidth
\* capital with a trailing space, the text "nan"
SheetEmails ==
  { <<>>, <<" ">>, <<"fw:A", " ">>, <<"n", "a", "n">> }

\* the cell of a column other than the e-mail column
Filler(col_name) == IF col_name = RouteHeader THEN <<"o", "l", "d">> ELSE <<"x">>

\* a data row under header `header` whose cell in column `at` (1-based) is e
MkRow(header, at, e) ==
  IF e = Absent
  THEN [j \in 1..(at - 1) |-> Filler(header[j])]
  ELSE [j \in 1..Len(header) |-> IF j = at THEN e ELSE Filler(header[j])]

MkSheet(header, at, es) ==
  <<header>> \o [i \in 1..Len(es) |-> MkRow(header, at, es[i])]

Templates ==
  { [header |-> HeaderAppend, at |-> 2], [header |-> HeaderExisting, at |-> 1] }

Sheets(templates, cells, n) ==
  {<<>>} \cup
  { MkSheet(t.header, t.at, es) : t \in templates, es \in SeqsUpTo(cells, n) }

\* a CSV cell as pandas hands it over: a string, or NaN for an empty field
NaN == [nan |-> TRUE, s |-> <<>>]

Cell(s) == [nan |-> FALSE, s |-> s]

CsvRows ==
  { [email |-> NaN, route |-> Cell(<<"R">>)],
    [email |-> Cell(<<" ">>), route |-> Cell(<<"R">>)],
    [email |-> Cell(<<"A">>), route |-> Cell(<<"R">>)],
    [email |-> Cell(<<"a">>), route |-> Cell(<<"S">>)],
    [email |-> Cell(<<"a">>), route |-> NaN] }

\* the uploaded files: readable as utf-8 or as cp932 only or not at all,
\* with or without the two required columns
CsvFilesOf(rows, n) ==
  { [encoding |-> "utf-8", has_email |-> TRUE, has_route |-> TRUE, rows |-> rs] :
      rs \in SeqsUpTo(rows, n) }
  \cup
  { [encoding |-> "cp932", has_email |-> TRUE, has_route |-> TRUE,
     rows |-> << [email |-> Cell(<<"a">>), route |-> Cell(<<"S">>)] >>],
    [encoding |-> "undecodable", has_email |-> TRUE, has_route |-> TRUE, rows |-> <<>>],
    [encoding |-> "utf-8", has_email |-> FALSE, has_route |-> TRUE, rows |-> <<>>],
    [encoding |-> "utf-8", has_email |-> TRUE, has_route |-> FALSE, rows |-> <<>>],
    [encoding |-> "cp932", has_email |-> FALSE, has_route |-> FALSE, rows |-> <<>>] }

CsvFiles(n) == CsvFilesOf(CsvRows, n)

\* one part of the multipart body: which name="..." texts occur in it,
\* whether it holds the blank line that ends the part's headers, whether
\* anything is left of its payload after rstrip, and whether the payload
\* decodes as utf-8
Part(url_name, csv_name, sep, filled) ==
  [url_name |-> url_name, csv_name |-> csv_name, sep |-> sep, filled |-> filled,
   utf8 |-> TRUE]

GoodRequest ==
  [ content_type |-> "multipart/form-data; boundary=b",
    length_ok |-> TRUE,
    parts |-> << Part(TRUE, FALSE, TRUE, TRUE), Part(FALSE, TRUE, TRUE, TRUE) >> ]

(***************************************************************************)
(* The steps of process_data as functions of its locals                    *)
(***************************************************************************)

\* a variant that does not look for the route column
MissingColumn_EmailOnly(file) ==
  IF ~file.has_email THEN UTAGE_EMAIL_COLUMN ELSE <<>>

\* lines 123-126: the required column the data frame lacks, the e-mail
\* column first; the empty string when it has both
MissingColumn(file) ==
  IF ~file.has_email THEN UTAGE_EMAIL_COLUMN
  ELSE IF ~file.has_route THEN UTAGE_ROUTE_COLUMN
  ELSE <<>>

\* line 91: worksheet.get_all_values() hands the values over as a rectangle;
\* the cells the service left out at the end of a row come as blank cells
FillGaps(values) ==
  LET lens == {Len(values[r]) : r \in 1..Len(values)}
      width == IF lens = {} THEN 0 ELSE CHOOSE n \in lens : \A m \in lens : m <= n
  IN  [r \in 1..Len(values) |->
         [j \in 1..width |-> IF j <= Len(values[r]) THEN values[r][j] ELSE <<>>]]

\* lines 102-105: the non-empty e-mail cells, in row order
ExtractEmails(rows, idx) ==
  LET with_email == SelectSeq(rows, LAMBDA row : idx < Len(row) /\ row[idx + 1] # <<>>)
  IN  [i \in 1..Len(with_email) |-> with_email[i][idx + 1]]

\* str(row.get(column, "")) on a cell of the data frame: str(nan) is "nan"
PdStr(cell) == IF cell.nan THEN <<"n", "a", "n">> ELSE cell.s

\* r in routes, for a list
InList(r, routes) == \E i \in 1..Len(routes) : routes[i] = r

\* lines 131-139: one CSV row added to the index
IndexRow(index, row) ==
  LET email == PdStr(row.email)
      route == PdStr(row.route)
      normalized == normalize_email(email)
      known == IF normalized \in DOMAIN index THEN index[normalized] ELSE <<>>
      routes == IF InList(route, known) THEN known ELSE Append(known, route)
  IN  IF email = <<>> THEN index
      ELSE [k \in DOMAIN index \cup {normalized} |->
              IF k = normalized THEN routes ELSE index[k]]

\* lines 129-139
RECURSIVE BuildIndex(_, _)
BuildIndex(rows, index) ==
  IF rows = <<>> THEN index
  ELSE BuildIndex(Tail(rows), IndexRow(index, Head(rows)))

\* email_to_routes.get(normalized, [])
Lookup(index, normalized) ==
  IF normalized \in DOMAIN index THEN index[normalized] ELSE <<>>

\* lines 144-151: one result per e-mail
MatchOne(index, email) ==
  LET routes == Lookup(index, normalize_email(email))
  IN  IF routes # <<>>
      THEN [email |-> email, routes |-> routes, found |-> TRUE]
      ELSE [email |-> email, routes |-> <<>>, found |-> FALSE]

Match(index, es) == [i \in 1..Len(es) |-> MatchOne(index, es[i])]

\* lines 143-151: the e-mails without a route, in order
NotFound(rs) ==
  LET r == SelectSeq(rs, LAMBDA x : ~x.found)
  IN  [i \in 1..Len(r) |-> r[i].email]

\* a variant that never reuses a column
RouteColumn_AlwaysAppend(header_row) == Len(header_row)

\* lines 155-164: the first column named "UTAGE<touroku keiro>", else a new
\* column behind the header
RouteColumn(header_row) ==
  LET hits == {i \in 1..Len(header_row) : header_row[i] = RouteHeader}
  IN  IF hits = {} THEN Len(header_row)
      ELSE (CHOOSE i \in hits : \A j \in hits : i <= j) - 1

\* lines 172-175: normalized e-mail -> joined routes
ResultMap(rs) ==
  [k \in {normalize_email(rs[i].email) : i \in 1..Len(rs)} |->
     LET last == CHOOSE i \in 1..Len(rs) :
                   /\ normalize_email(rs[i].email) = k
                   /\ \A j \in 1..Len(rs) :
                        normalize_email(rs[j].email) = k => j <= i
     IN  Join(rs[last].routes)]

\* lines 180-186: the value written for one data row
ValueOfRow(row, idx, result_map) ==
  IF idx < Len(row)
  THEN LET normalized == normalize_email(row[idx + 1])
       IN  IF normalized \in DOMAIN result_map THEN result_map[normalized] ELSE <<>>
  ELSE <<>>

\* lines 178-186
ValuesToWrite(data, idx, result_map) ==
  [i \in 1..(Len(data) - 1) |-> ValueOfRow(data[i + 1], idx, result_map)]

\* not_found_emails[:50]
MaxNotFoundListed == 50

\* a variant that keeps the whole list
Truncate_Unbounded(s, n) == s

Truncate(s, n) == IF Len(s) <= n THEN s ELSE SubSeq(s, 1, n)

\* lines 192-198
ResultOf(es, nf) ==
  [ success |-> TRUE,
    total_count |-> Len(es),
    success_count |-> Len(es) - Len(nf),
    not_found_count |-> Len(nf),
    not_found_emails |-> Truncate(nf, MaxNotFoundListed) ]

(***************************************************************************)
(* The spreadsheet service: worksheet.update on an A1 range                *)
(***************************************************************************)

\* ord(c) of a capital letter
Ord(c) == CHOOSE n \in 65..90 : Chr(n) = c

\* the 0-based column an A1 column name stands for
RECURSIVE A1Value(_)
A1Value(letters) ==
  IF letters = <<>> THEN 0
  ELSE 26 * A1Value(SubSeq(letters, 1, Len(letters) - 1))
       + (Ord(letters[Len(letters)]) - 64)

A1Column(letters) == A1Value(letters) - 1

\* a row with its cell in column c (0-based) set to v; a short row grows
\* by blank cells up to the cell written
SetInRow(row, c, v) ==
  LET n == IF Len(row) > c + 1 THEN Len(row) ELSE c + 1
  IN  [j \in 1..n |-> IF j = c + 1 THEN v
                      ELSE IF j <= Len(row) THEN row[j] ELSE <<>>]

\* the range f"{letter}{from}:{letter}{to}" of one column
Range(letter, from, to) == [letter |-> letter, from |-> from, to |-> to]

\* worksheet.update(range, values): values[i] goes to row from + i - 1 of
\* the range's column; the values grow by blank rows up to the last row
\* written
ApplyUpdate(sh, range, values) ==
  LET c == A1Column(range.letter)
      last == range.from + Len(values) - 1
      n == IF Len(sh) > last THEN Len(sh) ELSE last
  IN  [r \in 1..n |->
         LET row == IF r <= Len(sh) THEN sh[r] ELSE <<>>
         IN  IF r >= range.from /\ r <= last
             THEN SetInRow(row, c, values[r - range.from + 1])
             ELSE row]

(***************************************************************************)
(* Initial states                                                          *)
(***************************************************************************)

\* the locals of a request that has not started
Idle ==
  /\ all_data = <<>>
  /\ email_col_index = -1
  /\ emails = <<>>
  /\ tmp = "none"
  /\ csv_data = <<>>
  /\ email_to_routes = EmptyMap
  /\ results = <<>>
  /\ not_found_emails = <<>>
  /\ route_col_letter = <<>>
  /\ values_to_write = <<>>
  /\ result = NoResult
  /\ error = NoError
  /\ updates = <<>>
  /\ responses = <<>>
  /\ run = 1
  /\ prev = NoPrev

\* everything but the inputs, as a request arrives
Fresh ==
  /\ pc = "recv"
  /\ route_col_index = -1
  /\ Idle

Init ==
  /\ sheet \in Sheets(Templates, SheetEmails \cup {Absent}, MaxRows)
  /\ sheet0 = sheet
  /\ request = GoodRequest
  /\ csv \in CsvFiles(MaxCsvRows)
  /\ Fresh

(***************************************************************************)
(* handler.do_POST and process_data, step by step                          *)
(***************************************************************************)

\* an exception leaves the try block of do_POST: the except clause answers
Raise(e) ==
  /\ error' = e
  /\ pc' = "respond"

\* a variant that drops the exception
RaiseInTry_Swallowed(e) ==
  /\ error' = NoError
  /\ pc' = "finally"

\* an exception inside the try block of process_data: the finally clause
\* runs first
RaiseInTry(e) ==
  /\ error' = e
  /\ pc' = "finally"

\* a variant that takes a field as given as soon as a part assigns it
LastDecides_Unchecked(parts, hits) == hits # {}

\* the value a field has after the loop over the parts (lines 234-244) is
\* truthy: of the parts `hits` that assign it, the last one decides
LastDecides(parts, hits) ==
  /\ hits # {}
  /\ parts[CHOOSE i \in hits : \A j \in hits : j <= i].filled

\* lines 235-239: a part that holds name="spreadsheet_url" and the blank
\* line assigns spreadsheet_url
UrlGiven(parts) ==
  LastDecides(parts, {i \in 1..Len(parts) : parts[i].url_name /\ parts[i].sep})

\* line 239: the payload of such a part is decoded as utf-8
UrlUndecodable(parts) ==
  \E i \in 1..Len(parts) : parts[i].url_name /\ parts[i].sep /\ ~parts[i].utf8

\* lines 240-244: otherwise a part that holds name="csv_file" and the
\* blank line assigns csv_content
CsvGiven(parts) ==
  LastDecides(parts, {i \in 1..Len(parts) :
                        ~parts[i].url_name /\ parts[i].csv_name /\ parts[i].sep})

\* do_POST up to the call of process_data (lines 218-249, 256-257)
ParseRequest ==
  /\ pc = "recv"
  /\ IF ~request.length_ok
       THEN Raise(Err("ValueError: Content-Length"))
     ELSE IF request.content_type \notin
               {"multipart/form-data; boundary=b", "multipart/form-data"}
       THEN Raise(Err("multipart/form-data required"))
     ELSE IF request.content_type = "multipart/form-data"
       THEN Raise(Err("IndexError: boundary"))
     ELSE IF UrlUndecodable(request.parts)
       THEN Raise(Err("UnicodeDecodeError"))
     ELSE IF ~UrlGiven(request.parts) \/ ~CsvGiven(request.parts)
       THEN Raise(Err("spreadsheet URL and CSV file required"))
     ELSE pc' = "sheet" /\ error' = error
  /\ UNCHANGED << sheet, sheet0, request, csv, all_data, email_col_index, emails,
                  tmp, csv_data, email_to_routes, results, not_found_emails,
                  route_col_index, route_col_letter, values_to_write, result,
                  updates, responses, run, prev >>

\* lines 80-108: credentials, open the spreadsheet, read it, find the
\* e-mail column, collect the e-mails.  The credentials may be missing and
\* the service may refuse.
ReadSheet ==
  /\ pc = "sheet"
  /\ \E outcome \in {"ok", "no credentials", "service error"} :
       IF outcome # "ok"
       THEN /\ Raise(Err(outcome))
            /\ UNCHANGED << all_data, email_col_index, emails >>
       ELSE /\ all_data' = FillGaps(sheet)
            /\ IF all_data' = <<>>
               THEN /\ Raise(Err("no data in the spreadsheet"))
                    /\ UNCHANGED << email_col_index, emails >>
               ELSE /\ email_col_index' = find_email_column(all_data'[1])
                    /\ IF email_col_index' < 0
                       THEN /\ Raise(Err("e-mail column not found"))
                            /\ emails' = emails
                       ELSE /\ emails' = ExtractEmails(Tail(all_data'), email_col_index')
                            /\ IF emails' = <<>>
                               THEN Raise(Err("no e-mail address found"))
                               ELSE pc' = "tmpfile" /\ error' = error
  /\ UNCHANGED << sheet, sheet0, request, csv, tmp, csv_data, email_to_routes,
                  results, not_found_emails, route_col_index, route_col_letter,
                  values_to_write, result, updates, responses, run, prev >>

\* lines 111-113: the temporary file is created (delete=False) and the
\* upload written to it, before the try block.  Creating may fail; writing
\* (or the flush as the with block closes the file) may fail once the file
\* exists.
TempFile ==
  /\ pc = "tmpfile"
  /\ \E outcome \in {"ok", "create fails", "write fails"} :
       /\ tmp' = IF outcome = "create fails" THEN "none" ELSE "exists"
       /\ IF outcome = "ok"
          THEN pc' = "csv" /\ error' = error
          ELSE Raise(Err("OSError: temporary file"))
  /\ UNCHANGED << sheet, sheet0, request, csv, all_data, email_col_index, emails,
                  csv_data, email_to_routes, results, not_found_emails,
                  route_col_index, route_col_letter, values_to_write, result,
                  updates, responses, run, prev >>

\* lines 117-126: read as utf-8, on a UnicodeDecodeError as cp932; then
\* the two required columns
LoadCsv ==
  /\ pc = "csv"
  /\ IF csv.encoding \notin {"utf-8", "cp932"}
       THEN RaiseInTry(Err("UnicodeDecodeError")) /\ csv_data' = csv_data
     ELSE /\ csv_data' = csv.rows
          /\ IF MissingColumn(csv) # <<>>
               THEN RaiseInTry([kind |-> "CSV column missing", arg |-> MissingColumn(csv)])
               ELSE pc' = "match" /\ error' = error
  /\ UNCHANGED << sheet, sheet0, request, csv, all_data, email_col_index, emails,
                  tmp, email_to_routes, results, not_found_emails, route_col_index,
                  route_col_letter, values_to_write, result, updates, responses,
                  run, prev >>

\* lines 128-166: the index, the matching, the target column
MatchEmails ==
  /\ pc = "match"
  /\ email_to_routes' = BuildIndex(csv_data, EmptyMap)
  /\ results' = Match(email_to_routes', emails)
  /\ not_found_emails' = NotFound(results')
  /\ route_col_index' = RouteColumn(all_data[1])
  /\ route_col_letter' = col_index_to_letter(route_col_index')
  /\ pc' = "header"
  /\ UNCHANGED << sheet, sheet0, request, csv, all_data, email_col_index, emails,
                  tmp, csv_data, values_to_write, result, error, updates,
                  responses, run, prev >>

\* line 169: the header cell.  The service may refuse the call.
WriteHeader ==
  /\ pc = "header"
  /\ \E ok \in BOOLEAN :
       LET range == Range(route_col_letter, 1, 1)
           call == [range |-> range, values |-> <<RouteHeader>>]
       IN  IF ok
           THEN /\ sheet' = ApplyUpdate(sheet, range, <<RouteHeader>>)
                /\ updates' = Append(updates, call)
                /\ pc' = "data"
                /\ error' = error
           ELSE /\ RaiseInTry(Err("service error"))
                /\ UNCHANGED << sheet, updates >>
  /\ UNCHANGED << sheet0, request, csv, all_data, email_col_index, emails, tmp,
                  csv_data, email_to_routes, results, not_found_emails,
                  route_col_index, route_col_letter, values_to_write, result,
                  responses, run, prev >>

\* lines 171-198: the values, one batched update, the returned counts.
\* The service may refuse the call.
WriteData ==
  /\ pc = "data"
  /\ values_to_write' = ValuesToWrite(all_data, email_col_index, ResultMap(results))
  /\ \E ok \in BOOLEAN :
       LET range == Range(route_col_letter, 2, Len(values_to_write') + 1)
           call == [range |-> range, values |-> values_to_write']
       IN  IF values_to_write' = <<>>
           THEN /\ ok
                /\ result' = ResultOf(emails, not_found_emails)
                /\ pc' = "finally"
                /\ UNCHANGED << sheet, updates, error >>
           ELSE IF ok
           THEN /\ sheet' = ApplyUpdate(sheet, range, values_to_write')
                /\ updates' = Append(updates, call)
                /\ result' = ResultOf(emails, not_found_emails)
                /\ pc' = "finally"
                /\ error' = error
           ELSE /\ RaiseInTry(Err("service error"))
                /\ UNCHANGED << sheet, updates, result >>
  /\ UNCHANGED << sheet0, request, csv, all_data, email_col_index, emails, tmp,
                  csv_data, email_to_routes, results, not_found_emails,
                  route_col_index, route_col_letter, responses, run, prev >>

\* lines 200-201: os.unlink(tmp_path)
Finally ==
  /\ pc = "finally"
  /\ tmp' = "deleted"
  /\ pc' = "respond"
  /\ UNCHANGED << sheet, sheet0, request, csv, all_data, email_col_index, emails,
                  csv_data, email_to_routes, results, not_found_emails,
                  route_col_index, route_col_letter, values_to_write, result,
                  error, updates, responses, run, prev >>

\* lines 251-255 and 259-267: the answer, with send_cors_headers
Respond ==
  /\ pc = "respond"
  /\ responses' = Append(responses,
       IF error = NoError
       THEN [status |-> 200, cors |-> TRUE, body |-> result]
       ELSE [status |-> 500, cors |-> TRUE,
             body |-> [success |-> FALSE, error |-> error]])
  /\ pc' = "done"
  /\ UNCHANGED << sheet, sheet0, request, csv, all_data, email_col_index, emails,
                  tmp, csv_data, email_to_routes, results, not_found_emails,
                  route_col_index, route_col_letter, values_to_write, result,
                  error, updates, run, prev >>

Next ==
  \/ ParseRequest
  \/ ReadSheet
  \/ TempFile
  \/ LoadCsv
  \/ MatchEmails
  \/ WriteHeader
  \/ WriteData
  \/ Finally
  \/ Respond

Spec == Init /\ [][Next]_vars

(***************************************************************************)
(* Long spreadsheets: a few free rows, then many rows with one e-mail      *)
(***************************************************************************)

\* free rows in front of the repeated ones
MaxBigPrefix == 1

\* most repeated rows
MaxPadRows == 51

\* rows of the CSV
MaxBigCsvRows == 1

InitBig ==
  /\ \E es \in SeqsUpTo(SheetEmails \cup {Absent}, MaxBigPrefix),
        e \in SheetEmails,
        n \in {0} \cup (MaxNotFoundListed..MaxPadRows) :
       sheet = MkSheet(HeaderAppend, 2, es \o [i \in 1..n |-> e])
  /\ sheet0 = sheet
  /\ request = GoodRequest
  /\ csv \in CsvFilesOf({row \in CsvRows : row.route = Cell(<<"R">>)}, MaxBigCsvRows)
  /\ Fresh

SpecBig == InitBig /\ [][Next]_vars

(***************************************************************************)
(* Header rows of many shapes                                              *)
(***************************************************************************)

\* data rows and CSV rows
MaxHdrRows == 1

MaxHdrCsvRows == 1

\* the route column in front of the e-mail column ("E-MAIL")
HeaderRouteFirst == << RouteHeader, <<"E", "-", "M", "A", "I", "L">> >>

\* a blank header cell in front of the "mail" column
HeaderBlankCell == << <<>>, <<"m", "a", "i", "l">> >>

\* a header cell "a", which is part of the pattern "email"
HeaderSubstring == << <<"a">>, S_MailAddress >>

\* no e-mail column
HeaderNoEmail == << S_Name >>

\* two route columns behind the e-mail column
HeaderTwoRoutes == << <<"m", "a", "i", "l">>, RouteHeader, RouteHeader >>

\* 26 columns, the last one the e-mail column: a new column is column "AA"
HeaderWide == [j \in 1..26 |-> IF j = 26 THEN S_MailAddress ELSE S_Name]

HdrTemplates ==
  Templates \cup
  { [header |-> HeaderRouteFirst, at |-> 2],
    [header |-> HeaderBlankCell, at |-> 1],
    [header |-> HeaderSubstring, at |-> 1],
    [header |-> HeaderNoEmail, at |-> 1],
    [header |-> HeaderTwoRoutes, at |-> 1],
    [header |-> HeaderWide, at |-> 26] }

InitHdr ==
  /\ sheet \in Sheets(HdrTemplates, SheetEmails \cup {Absent}, MaxHdrRows)
  /\ sheet0 = sheet
  /\ request = GoodRequest
  /\ csv \in CsvFiles(MaxHdrCsvRows)
  /\ Fresh

SpecHdr == InitHdr /\ [][Next]_vars

(***************************************************************************)
(* The same request sent again after it succeeded                          *)
(***************************************************************************)

\* requests in a row
MaxRuns == 2

\* the client posts the same form again; the spreadsheet is as the last
\* request left it
Resubmit ==
  /\ pc = "done"
  /\ error = NoError
  /\ run < MaxRuns
  /\ prev' = [ok |-> TRUE, route_col_index |-> route_col_index,
              updates |-> updates, result |-> result, sheet |-> sheet]
  /\ run' = run + 1
  /\ sheet0' = sheet
  /\ pc' = "recv"
  /\ all_data' = <<>>
  /\ email_col_index' = -1
  /\ emails' = <<>>
  /\ tmp' = "none"
  /\ csv_data' = <<>>
  /\ email_to_routes' = EmptyMap
  /\ results' = <<>>
  /\ not_found_emails' = <<>>
  /\ route_col_index' = -1
  /\ route_col_letter' = <<>>
  /\ values_to_write' = <<>>
  /\ result' = NoResult
  /\ updates' = <<>>
  /\ responses' = <<>>
  /\ UNCHANGED << sheet, request, csv, error >>

NextRerun ==
  \/ Next
  \/ Resubmit

SpecRerun == InitHdr /\ [][NextRerun]_vars

(***************************************************************************)
(* Requests of many shapes                                                 *)
(***************************************************************************)

\* parts of the multipart body
MaxParts == 2

PartKinds ==
  { Part(TRUE, FALSE, TRUE, TRUE),     \* spreadsheet_url with a value
    Part(TRUE, FALSE, TRUE, FALSE),    \* spreadsheet_url, empty
    Part(TRUE, FALSE, FALSE, FALSE),   \* spreadsheet_url without the blank line
    Part(FALSE, TRUE, TRUE, TRUE),     \* csv_file with content
    Part(FALSE, TRUE, TRUE, FALSE),    \* csv_file, empty
    Part(FALSE, TRUE, FALSE, FALSE),   \* csv_file without the blank line
    Part(TRUE, TRUE, TRUE, TRUE),      \* a part that holds both names
    [Part(TRUE, FALSE, TRUE, TRUE) EXCEPT !.utf8 = FALSE],  \* not utf-8
    Part(FALSE, FALSE, TRUE, TRUE) }   \* another field

Requests ==
  { [content_type |-> ct, length_ok |-> ok, parts |-> ps] :
      ct \in {"multipart/form-data; boundary=b", "multipart/form-data",
              "application/json"},
      ok \in BOOLEAN,
      ps \in SeqsUpTo(PartKinds, MaxParts) }

InitHttp ==
  /\ sheet \in Sheets({[header |-> HeaderAppend, at |-> 2]}, {<<"fw:A", " ">>}, 1)
  /\ sheet0 = sheet
  /\ request \in Requests
  /\ csv \in CsvFiles(0)
  /\ Fresh

SpecHttp == InitHttp /\ [][Next]_vars

(***************************************************************************)
(* col_index_to_letter on its own                                          *)
(***************************************************************************)

\* largest column index converted
MaxColIndex == 750

InitCol ==
  /\ pc = "col"
  /\ route_col_index \in 0..MaxColIndex
  /\ sheet = <<>>
  /\ sheet0 = <<>>
  /\ request = GoodRequest
  /\ csv = [encoding |-> "utf-8", has_email |-> TRUE, has_route |-> TRUE, rows |-> <<>>]
  /\ Idle

\* line 166
ConvertColumn ==
  /\ pc = "col"
  /\ route_col_letter' = col_index_to_letter(route_col_index)
  /\ pc' = "col done"
  /\ UNCHANGED << sheet, sheet0, request, csv, all_data, email_col_index, emails,
                  tmp, csv_data, email_to_routes, results, not_found_emails,
                  route_col_index, values_to_write, result, error, updates,
                  responses, run, prev >>

NextCol == ConvertColumn

SpecCol == InitCol /\ [][NextCol]_vars

(***************************************************************************)
(* Notions the properties are stated with                                  *)
(***************************************************************************)

\* the text of a CSV field as uploaded: an empty field is the empty string
FieldText(cell) == IF cell.nan THEN <<>> ELSE cell.s

\* the distinct route texts, in first-seen order, of the CSV rows whose
\* e-mail field is not empty and whose normalized e-mail is key
RECURSIVE RoutesOf(_, _, _)
RoutesOf(rows, key, acc) ==
  IF rows = <<>> THEN acc
  ELSE LET row == Head(rows)
           hit == /\ FieldText(row.email) # <<>>
                  /\ normalize_email(FieldText(row.email)) = key
                  /\ ~InList(FieldText(row.route), acc)
       IN  RoutesOf(Tail(rows), key,
                    IF hit THEN Append(acc, FieldText(row.route)) ELSE acc)

\* the cell (r, c) of the values, r 1-based and c 0-based; blank when the
\* values do not reach it
CellAt(sh, r, c) ==
  IF r >= 1 /\ r <= Len(sh) /\ c >= 0 /\ c < Len(sh[r]) THEN sh[r][c + 1] ELSE <<>>

\* the data rows of the spreadsheet as the request found it
DataRows == Tail(sheet0)

\* the e-mail cell of data row i
EmailOf(i) == CellAt(sheet0, i + 1, email_col_index)

\* the e-mail cell of data row i is not blank
HasEmail(i) == EmailOf(i) # <<>>

\* the e-mail cell of data row i is blank
BlankEmail(i) == EmailOf(i) = <<>>

\* the request is over
Done == pc = "done"

\* process_data returned its counts
Succeeded == result # NoResult

\* the batched data write went through
DataWritten == Len(updates) = 2

(***************************************************************************)
(* C1                                                                      *)
(***************************************************************************)

\* C1: once the data write is issued it holds one value per data row, the
\* value of data row i sits in sheet row i + 1 of the target column, and the
\* value of a row with a non-blank e-mail cell is the ", "-join of the
\* distinct routes of the CSV rows with the same normalized e-mail (empty
\* when there is none).
C1_DataWriteJoinsRoutes ==
  DataWritten =>
    LET call == updates[2]
    IN  /\ Len(call.values) = Len(DataRows)
        /\ \A i \in 1..Len(DataRows) :
             /\ CellAt(sheet, i + 1, route_col_index) = call.values[i]
             /\ HasEmail(i) =>
                  call.values[i] =
                    Join(RoutesOf(csv.rows,
                                  normalize_email(EmailOf(i)),
                                  <<>>))

(***************************************************************************)
(* C2                                                                      *)
(***************************************************************************)

\* the spreadsheet differs from what the request found at most in row 1 of
\* the target column, which holds the route header
OnlyHeaderCellWritten ==
  /\ Len(sheet) = Len(sheet0)
  /\ \A r \in 1..Len(sheet) :
       sheet[r] = IF r = 1 THEN SetInRow(sheet0[1], route_col_index, RouteHeader)
                  ELSE sheet0[r]

\* C2 as stated: a finished request either applied both writes and returned
\* the counts, or returned an error and left every cell as it was.
C2_AllOrNothing ==
  Done =>
    \/ error = NoError /\ Succeeded /\ DataWritten
    \/ error # NoError /\ sheet = sheet0

\* C2 amended: a request that returns counts has applied both writes; a
\* request that fails before the header write has changed no cell; a
\* request whose data write fails after the header write has changed no
\* cell but the header cell of the target column, which stays written.
C2_HeaderWriteIsNotRolledBack ==
  Done =>
    /\ error = NoError => Succeeded /\ DataWritten
    /\ error # NoError /\ updates = <<>> => sheet = sheet0
    /\ error # NoError /\ Len(updates) = 1 =>
         /\ updates[1].values = <<RouteHeader>>
         /\ OnlyHeaderCellWritten

\* a request failed in the data write and left a header cell behind that
\* was not there before
C2_Witness ==
  /\ Done
  /\ error # NoError
  /\ Len(updates) = 1
  /\ sheet # sheet0

(***************************************************************************)
(* C3                                                                      *)
(***************************************************************************)

\* the upload decodes and lacks a required column
LacksColumn ==
  /\ csv.encoding \in {"utf-8", "cp932"}
  /\ ~csv.has_email \/ ~csv.has_route

\* C3: when the decoded CSV lacks a required column no worksheet.update is
\* ever issued, and once the CSV has been read the request carries, and
\* answers with, the error that names the missing column.
C3_MissingColumnNoWrite ==
  LacksColumn =>
    /\ updates = <<>>
    /\ sheet = sheet0
    /\ pc \notin {"match", "header", "data"}
    /\ pc = "finally" \/ (pc \in {"respond", "done"} /\ tmp = "deleted") =>
         /\ error.kind = "CSV column missing"
         /\ error.arg = (IF ~csv.has_email THEN UTAGE_EMAIL_COLUMN
                         ELSE UTAGE_ROUTE_COLUMN)
         /\ ~Succeeded
         /\ Done => responses = << [status |-> 500, cors |-> TRUE,
                                    body |-> [success |-> FALSE, error |-> error]] >>

\* a request whose CSV has the e-mail column but not the route column ended
C3_Witness ==
  /\ Done
  /\ csv.has_email /\ ~csv.has_route
  /\ error.arg = UTAGE_ROUTE_COLUMN
  /\ tmp = "deleted"

(***************************************************************************)
(* C5                                                                      *)
(***************************************************************************)

\* C5: a data row with a blank e-mail cell adds nothing to the e-mails to
\* resolve and is written as the empty string.
C5_BlankRowWrittenEmpty ==
  /\ pc \notin {"recv", "sheet"} /\ all_data # <<>> /\ email_col_index >= 0 =>
       Len(emails) = Cardinality({i \in 1..Len(DataRows) : HasEmail(i)})
  /\ DataWritten =>
       \A i \in 1..Len(DataRows) : BlankEmail(i) => updates[2].values[i] = <<>>

(***************************************************************************)
(* C9                                                                      *)
(***************************************************************************)

\* C9: once process_data has returned or raised, the temporary file it
\* created is gone.
C9_TempFileReleased ==
  pc \in {"respond", "done"} => tmp # "exists"

(***************************************************************************)
(* C4                                                                      *)
(***************************************************************************)

\* the data rows with a non-blank e-mail cell whose normalized e-mail is
\* no key of the index, in row order
UnmatchedRows ==
  SelectSeq([i \in 1..Len(DataRows) |-> i],
            LAMBDA i : /\ HasEmail(i)
                       /\ normalize_email(EmailOf(i))
                            \notin DOMAIN email_to_routes)

Min(a, b) == IF a <= b THEN a ELSE b

\* C4: in a successful result total_count is the number of data rows with
\* a non-blank e-mail cell, success_count + not_found_count = total_count,
\* not_found_count is the number of those rows whose normalized e-mail is
\* no key of the index, and not_found_emails lists the first
\* min(50, not_found_count) of their e-mails, as found, in row order.
C4_CountsAndNotFoundList ==
  Succeeded =>
    LET unmatched == UnmatchedRows
    IN  /\ result.total_count = Cardinality({i \in 1..Len(DataRows) : HasEmail(i)})
        /\ result.success_count + result.not_found_count = result.total_count
        /\ result.success_count >= 0
        /\ result.not_found_count = Len(unmatched)
        /\ Len(result.not_found_emails) = Min(50, result.not_found_count)
        /\ \A k \in 1..Len(result.not_found_emails) :
             result.not_found_emails[k] = EmailOf(unmatched[k])

\* a request succeeded with more than 50 e-mails not found, and others found
C4_Witness ==
  /\ Succeeded
  /\ result.not_found_count > 50
  /\ Len(result.not_found_emails) = 50
  /\ result.success_count > 0

(***************************************************************************)
(* C6                                                                      *)
(***************************************************************************)

\* C6: when the same request is served again on the spreadsheet its
\* successful predecessor left, and succeeds, it picks the same target
\* column, whose header is the route header already, issues the same two
\* writes, returns the same counts and leaves the spreadsheet as it was.
C6_RerunOverwritesSameColumn ==
  run > 1 /\ prev.ok /\ Succeeded =>
    /\ route_col_index = prev.route_col_index
    /\ CellAt(sheet0, 1, route_col_index) = RouteHeader
    /\ updates = prev.updates
    /\ result = prev.result
    /\ sheet = prev.sheet
    /\ sheet = sheet0

\* a second request succeeded on a spreadsheet to which the first one had
\* appended the column, with a route written
C6_Witness ==
  /\ run = 2
  /\ Done
  /\ Succeeded
  /\ route_col_index = Len(HeaderAppend)
  /\ \E i \in 1..Len(values_to_write) : values_to_write[i] # <<>>

(***************************************************************************)
(* C7                                                                      *)
(***************************************************************************)

\* the column name after w in spreadsheet order: A, ..., Z, AA, AB, ...
RECURSIVE NextName(_)
NextName(w) ==
  IF w = <<>> THEN <<"A">>
  ELSE LET last == w[Len(w)]
           front == SubSeq(w, 1, Len(w) - 1)
       IN  IF last = "Z" THEN NextName(front) \o <<"A">>
           ELSE Append(front, Chr(Ord(last) + 1))

\* C7: col_index_to_letter gives the documented names (0 -> A, 1 -> B,
\* 25 -> Z, 26 -> AA, 27 -> AB, 701 -> ZZ, 702 -> AAA), a non-empty name
\* over A-Z for every index, the name of index + 1 is the one after the
\* name of index in spreadsheet order, and no other index of the range
\* has the same name.
C7_ColumnLettersBijective ==
  pc = "col done" =>
    /\ route_col_index = 0 => route_col_letter = <<"A">>
    /\ route_col_index = 1 => route_col_letter = <<"B">>
    /\ route_col_index = 25 => route_col_letter = <<"Z">>
    /\ route_col_index = 26 => route_col_letter = <<"A", "A">>
    /\ route_col_index = 27 => route_col_letter = <<"A", "B">>
    /\ route_col_index = 701 => route_col_letter = <<"Z", "Z">>
    /\ route_col_index = 702 => route_col_letter = <<"A", "A", "A">>
    /\ route_col_letter # <<>>
    /\ \A k \in 1..Len(route_col_letter) :
         \E n \in 65..90 : route_col_letter[k] = Chr(n)
    /\ col_index_to_letter(route_col_index + 1) = NextName(route_col_letter)
    /\ \A j \in 0..MaxColIndex :
         j # route_col_index => col_index_to_letter(j) # route_col_letter

\* index 702 was converted to the first three-letter name
C7_Witness ==
  /\ pc = "col done"
  /\ route_col_index = 702
  /\ route_col_letter = <<"A", "A", "A">>

(***************************************************************************)
(* C8                                                                      *)
(***************************************************************************)

\* the body holds a part with this field name, the blank line and a value
UrlPartPresent ==
  \E i \in 1..Len(request.parts) :
    request.parts[i].url_name /\ request.parts[i].sep /\ request.parts[i].filled

CsvPartPresent ==
  \E i \in 1..Len(request.parts) :
    request.parts[i].csv_name /\ request.parts[i].sep /\ request.parts[i].filled

IsMultipart ==
  request.content_type \in {"multipart/form-data; boundary=b", "multipart/form-data"}

\* C8: a request is answered exactly once, with the cross-origin headers:
\* with 200 and the result only when the content type is multipart, both
\* fields are present and non-empty and process_data returned; with 500
\* and {success: false, error} in every other case.
C8_OneResponse ==
  /\ Done \/ ENABLED Next
  /\ Len(responses) = (IF Done THEN 1 ELSE 0)
  /\ \A k \in 1..Len(responses) :
       LET r == responses[k]
       IN  /\ r.cors
           /\ r.status \in {200, 500}
           /\ r.status = 200 =>
                /\ IsMultipart /\ UrlPartPresent /\ CsvPartPresent
                /\ error = NoError
                /\ Succeeded /\ DataWritten
                /\ r.body = result
                /\ r.body.success
           /\ r.status = 500 =>
                /\ error # NoError
                /\ r.body = [success |-> FALSE, error |-> error]
           /\ (~IsMultipart \/ ~UrlPartPresent \/ ~CsvPartPresent \/ ~Succeeded)
                => r.status = 500

\* a well-formed request was answered with 200
C8_Witness ==
  /\ Done
  /\ responses # <<>>
  /\ responses[1].status = 200
  /\ Len(request.parts) = 2

(***************************************************************************)
(* C10                                                                     *)
(***************************************************************************)

\* the widest row of the two spreadsheets
Width(sh) ==
  IF sh = <<>> THEN 0
  ELSE LET lens == {Len(sh[r]) : r \in 1..Len(sh)}
       IN  CHOOSE n \in lens : \A m \in lens : m <= n

\* C10: a request changes no cell outside the target column, the target
\* column is never the e-mail column (the route header is no e-mail header
\* and a new column lies behind the header row), so the e-mail column and
\* every other column stay as they were.
C10_OnlyTargetColumnWritten ==
  /\ Len(sheet) = Len(sheet0)
  /\ \A r \in 1..Len(sheet) :
       \A c \in 0..(Width(sheet) + Width(sheet0)) :
         CellAt(sheet, r, c) # CellAt(sheet0, r, c) =>
           updates # <<>> /\ c = route_col_index
  /\ ~HeaderMatches(RouteHeader)
  /\ route_col_index >= 0 =>
       /\ route_col_index # email_col_index
       /\ \/ route_col_index = Len(sheet0[1])
          \/ /\ route_col_index < Len(sheet0[1])
             /\ sheet0[1][route_col_index + 1] = RouteHeader
  /\ updates # <<>> =>
       \A r \in 1..Len(sheet) :
         CellAt(sheet, r, email_col_index) = CellAt(sheet0, r, email_col_index)

\* both writes went into a route column that lies in front of the e-mail
\* column, and a data cell changed
C10_Witness ==
  /\ DataWritten
  /\ route_col_index < email_col_index
  /\ sheet # sheet0
  /\ \E r \in 2..Len(sheet) :
       CellAt(sheet, r, route_col_index) # CellAt(sheet0, r, route_col_index)

=============================================================================
